---- MODULE Spec2Model ----
(***************************************************************************)
(* The Dashboard component of src/client/src/App.jsx as a state machine:   *)
(* the startup retrieval, the six facet filters, the three memoised        *)
(* computations (filterOptions, filteredData, aggregatedData), the summary *)
(* statistics and the chart-loading timers, together with the one route of *)
(* the server (src/server/server.js) that produces the response.           *)
(*                                                                         *)
(* JavaScript values are tagged records.  A string is the sequence of its  *)
(* UTF-16 code units, so that the default sort order, the array-index test *)
(* of property keys, Number-to-String and parseInt are computed and not    *)
(* assumed.  A number is kept in halves (h stands for h/2), which is exact *)
(* for the values used here and lets 2.5 and -2.5 be inputs.               *)
(***************************************************************************)
EXTENDS Integers, Sequences, FiniteSets, TLC

VARIABLES
    data,            \* useState([]): the raw dataset, a JavaScript value
    loading,         \* useState(true)
    chartsLoading,   \* useState({intensity, region, likelihood, topic})
    error,           \* useState(null)
    filters,         \* useState({topic:'', ...})
    fetchPc,         \* position of the mount effect: "idle", "pending", "settled"
    fetchCount,      \* retrievals issued so far
    fetchOutcome,    \* how the retrieval settled: "none", "ok", "network", "status"
    effectTimer,     \* the 800 ms timer of the chart effect is pending
    handlerTimers,   \* pending 500 ms timers of handleFilterChange (FIFO: a count)
    staleTimers,     \* those of them started before the most recent filter change
    lastChange,      \* the most recent filter change: "none" before the first,
                     \* "pending" until a timer it started expires, then "elapsed"
    filterOptions,   \* useMemo(..., [data])
    filteredData,    \* useMemo(..., [data, filters])
    aggregatedData,  \* useMemo(..., [filteredData])
    crashed          \* a render threw: the tree is unmounted

vars == <<data, loading, chartsLoading, error, filters, fetchPc, fetchCount,
          fetchOutcome, effectTimer, handlerTimers, staleTimers, lastChange,
          filterOptions, filteredData, aggregatedData, crashed>>

(***************************************************************************)
(* Bounds of the model.                                                    *)
(***************************************************************************)
MaxRecords == 2
NumWideKeys == 11
MaxHandlerTimers == 1

(***************************************************************************)
(* JavaScript values.                                                      *)
(***************************************************************************)
Undefined == [t |-> "undefined"]
Null == [t |-> "null"]
Str(u) == [t |-> "string", u |-> u]
Num(h) == [t |-> "number", h |-> h]
Arr(items) == [t |-> "array", items |-> items]

\* ToBoolean, for the value types that occur
Truthy(v) ==
    CASE v.t = "string" -> v.u # <<>>
      [] v.t = "number" -> v.h # 0
      [] v.t = "array" -> TRUE
      [] OTHER -> FALSE

\* item.field: a missing property reads as undefined
Get(item, field) == IF field \in DOMAIN item THEN item[field] ELSE Undefined

Min(a, b) == IF a < b THEN a ELSE b

(***************************************************************************)
(* The strings of the model, as UTF-16 code units.                         *)
(***************************************************************************)
S_empty == <<>>
S_Asia == <<65, 115, 105, 97>>
S_7 == <<55>>
S_10 == <<49, 48>>
S_oil == <<111, 105, 108>>
S_gas == <<103, 97, 115>>
S_Energy == <<69, 110, 101, 114, 103, 121>>
S_Legal == <<76, 101, 103, 97, 108>>
S_EIA == <<69, 73, 65>>
S_India == <<73, 110, 100, 105, 97>>
S_NoData == <<78, 111, 32, 68, 97, 116, 97>>
S_ErrorPrefix == <<69, 114, 114, 111, 114, 58, 32>>
\* 'Failed to fetch data. Please try again later.'
S_FetchFailed ==
    <<70, 97, 105, 108, 101, 100, 32, 116, 111, 32, 102, 101, 116, 99,
    104, 32, 100, 97, 116, 97, 46, 32, 80, 108, 101, 97, 115, 101, 32,
    116, 114, 121, 32, 97, 103, 97, 105, 110, 32, 108, 97, 116, 101,
    114, 46>>

Facets == <<"topic", "sector", "region", "pestle", "source", "country">>
FacetSet == {Facets[i] : i \in 1..Len(Facets)}

\* option list key of each facet (filterOptions.topics, ...)
OptionKey(facet) ==
    CASE facet = "topic" -> "topics"
      [] facet = "sector" -> "sectors"
      [] facet = "region" -> "regions"
      [] facet = "pestle" -> "pestles"
      [] facet = "source" -> "sources"
      [] facet = "country" -> "countries"

(***************************************************************************)
(* The records the retrieval can return.  RecordPool exercises every facet *)
(* present, empty and absent, keys that look like array indices ("7",      *)
(* "10"), and scores that are null, absent, zero, negative and             *)
(* half-integers.  WideData(j, facet) has NumWideKeys distinct regions, or  *)
(* topics, ("a", "b", ...), the j-th occurring twice, so that the cut to   *)
(* the top 10 acts, and intensities from -1.5 upwards in steps of 0.5.     *)
(***************************************************************************)
P1 ==
    [topic |-> Str(S_oil), sector |-> Str(S_Energy), region |-> Str(S_Asia),
     pestle |-> Str(S_Legal), source |-> Str(S_EIA), country |-> Str(S_India),
     intensity |-> Num(6), likelihood |-> Num(6), relevance |-> Num(4)]
P2 ==
    [topic |-> Str(S_gas), region |-> Str(S_Asia), intensity |-> Num(5),
     relevance |-> Num(1)]
P3 ==
    [topic |-> Str(S_oil), sector |-> Str(S_empty), region |-> Str(S_7),
     country |-> Str(S_India), intensity |-> Null, likelihood |-> Num(4)]
P4 ==
    [topic |-> Str(S_empty), region |-> Str(S_10), pestle |-> Str(S_Legal),
     intensity |-> Num(-5), likelihood |-> Null]
P5 ==
    [topic |-> Str(S_gas), sector |-> Str(S_Energy), source |-> Str(S_EIA),
     intensity |-> Num(0), relevance |-> Num(3)]

RecordPool == {P1, P2, P3, P4, P5}

SmallData == UNION {[1..n -> RecordPool] : n \in 0..MaxRecords}

WideKey(i) == <<96 + i>>
WideScore(i) == IF i = 1 THEN Null ELSE Num(i - 5)
WideRecord(i, facet) ==
    IF facet = "region"
    THEN [region |-> Str(WideKey(i)), intensity |-> WideScore(i)]
    ELSE [topic |-> Str(WideKey(i)), intensity |-> WideScore(i)]
WideData(j, facet) ==
    [i \in 1..(NumWideKeys + 1) |->
        IF i <= NumWideKeys THEN WideRecord(i, facet) ELSE WideRecord(j, facet)]

Datasets ==
    SmallData
        \cup {WideData(j, facet) : j \in 1..NumWideKeys, facet \in {"region", "topic"}}

(***************************************************************************)
(* Strings and arrays.                                                     *)
(***************************************************************************)
\* a < b in the order of the default sort: by UTF-16 code units
StrLess(a, b) ==
    \E k \in 0..Min(Len(a), Len(b)) :
        /\ \A i \in 1..k : a[i] = b[i]
        /\ \/ k = Len(a) /\ k < Len(b)
           \/ k < Len(a) /\ k < Len(b) /\ a[k + 1] < b[k + 1]

\* the number a string of decimal digits denotes
DigitsValue(k) ==
    LET val[i \in 0..Len(k)] ==
            IF i = 0 THEN 0 ELSE val[i - 1] * 10 + (k[i] - 48)
    IN  val[Len(k)]

\* the comparators given to sort: none (the elements as strings, by code
\* units), the three of lines 170, 182 and 191, and the two orders of
\* array-index keys (as numbers: Object.entries; as strings: not the code's)
Compare(cmp, a, b) ==
    CASE cmp = "default" ->
             IF StrLess(a.u, b.u) THEN -1 ELSE IF StrLess(b.u, a.u) THEN 1 ELSE 0
      [] cmp = "valueDesc" -> b.value - a.value
      [] cmp = "countDesc" -> b.count - a.count
      [] cmp = "intensityAsc" -> a.intensity - b.intensity
      [] cmp = "indexAsc" -> DigitsValue(a.key) - DigitsValue(b.key)
      [] cmp = "indexAsString" ->
             IF StrLess(a.key, b.key) THEN -1 ELSE IF StrLess(b.key, a.key) THEN 1 ELSE 0

\* Array.prototype.sort with the comparator cmp: stable (insertion from the left)
InsertSorted(t, x, cmp) ==
    LET pos == CHOOSE p \in 0..Len(t) :
                   /\ \A q \in (p + 1)..Len(t) : Compare(cmp, t[q], x) > 0
                   /\ p > 0 => Compare(cmp, t[p], x) <= 0
    IN  SubSeq(t, 1, pos) \o <<x>> \o SubSeq(t, pos + 1, Len(t))

SortBy(s, cmp) ==
    LET sorted[i \in 0..Len(s)] ==
            IF i = 0 THEN <<>> ELSE InsertSorted(sorted[i - 1], s[i], cmp)
    IN  sorted[Len(s)]

\* [...new Set(s)]: the distinct values in order of first occurrence
SetOf(s) ==
    LET keep == {i \in 1..Len(s) : \A j \in 1..(i - 1) : s[j] # s[i]}
        pick[i \in 0..Len(s)] ==
            IF i = 0 THEN <<>>
            ELSE IF i \in keep THEN Append(pick[i - 1], s[i]) ELSE pick[i - 1]
    IN  pick[Len(s)]

\* Array.prototype.slice(0, n)
Slice(s, n) == SubSeq(s, 1, Min(n, Len(s)))

(***************************************************************************)
(* filterOptions: the option list of one facet.                            *)
(***************************************************************************)
\* the option list with the final sort() left out
OptionsOfUnsorted(items, facet) ==
    SelectSeq(SetOf([i \in 1..Len(items) |-> Get(items[i], facet)]), Truthy)

OptionsOf(items, facet) ==
    SortBy(SelectSeq(SetOf([i \in 1..Len(items) |-> Get(items[i], facet)]), Truthy),
           "default")

ComputeFilterOptions(d) ==
    [k \in {OptionKey(f) : f \in FacetSet} |->
        OptionsOf(d.items, CHOOSE f \in FacetSet : OptionKey(f) = k)]

(***************************************************************************)
(* filteredData.                                                           *)
(***************************************************************************)
\* each facet test written as !filter || !item.field || item.field === filter:
\* an absent field taken for a match
MatchesAbsentAsAny(item, f) ==
    \A facet \in FacetSet :
        ~Truthy(f[facet]) \/ ~Truthy(Get(item, facet)) \/ Get(item, facet) = f[facet]

Matches(item, f) ==
    LET topicMatch == ~Truthy(f.topic)
                        \/ (Truthy(Get(item, "topic")) /\ Get(item, "topic") = f.topic)
        sectorMatch == ~Truthy(f.sector)
                        \/ (Truthy(Get(item, "sector")) /\ Get(item, "sector") = f.sector)
        regionMatch == ~Truthy(f.region)
                        \/ (Truthy(Get(item, "region")) /\ Get(item, "region") = f.region)
        pestleMatch == ~Truthy(f.pestle)
                        \/ (Truthy(Get(item, "pestle")) /\ Get(item, "pestle") = f.pestle)
        sourceMatch == ~Truthy(f.source)
                        \/ (Truthy(Get(item, "source")) /\ Get(item, "source") = f.source)
        countryMatch == ~Truthy(f.country)
                        \/ (Truthy(Get(item, "country")) /\ Get(item, "country") = f.country)
    IN  topicMatch /\ sectorMatch /\ regionMatch /\ pestleMatch /\ sourceMatch
        /\ countryMatch

\* the guard written as data.length <= 1
EmptyGuardOffByOne(items) == Len(items) <= 1

\* the guard of line 137: !data.length
EmptyGuard(items) == Len(items) = 0

FilterRecords(items, f) ==
    IF EmptyGuard(items) THEN <<>>
    ELSE LET keep(item) == Matches(item, f) IN SelectSeq(items, keep)

ComputeFilteredData(d, f) == FilterRecords(d.items, f)

(***************************************************************************)
(* A plain object used as an accumulator: its own properties in order of   *)
(* creation, each [key, value], the key a string.  The keys of the model   *)
(* are none of the names Object.prototype defines.                         *)
(***************************************************************************)
HasOwn(obj, k) == \E i \in 1..Len(obj) : obj[i].key = k

\* acc[k] = (acc[k] || 0) + 1
Increment(obj, k) ==
    IF HasOwn(obj, k)
    THEN [i \in 1..Len(obj) |->
             IF obj[i].key = k THEN [obj[i] EXCEPT !.value = @ + 1] ELSE obj[i]]
    ELSE Append(obj, [key |-> k, value |-> 1])

IsDigit(c) == c \in 48..57

\* an array index: the canonical decimal string of an integer below 2^32 - 1
\* (every string of at most nine digits is below it; longer ones do not occur)
IsArrayIndex(k) ==
    /\ Len(k) > 0
    /\ Len(k) < 10
    /\ \A i \in 1..Len(k) : IsDigit(k[i])
    /\ (k[1] # 48 \/ Len(k) = 1)

\* Object.entries with the array-index keys ordered as strings, not as numbers
ObjectEntriesIndexKeysAsStrings(obj) ==
    LET isIndex(e) == IsArrayIndex(e.key)
        isOther(e) == ~IsArrayIndex(e.key)
    IN  SortBy(SelectSeq(obj, isIndex), "indexAsString") \o SelectSeq(obj, isOther)

\* Object.entries: array-index keys ascending, then the others as created
ObjectEntries(obj) ==
    LET isIndex(e) == IsArrayIndex(e.key)
        isOther(e) == ~IsArrayIndex(e.key)
    IN  SortBy(SelectSeq(obj, isIndex), "indexAsc") \o SelectSeq(obj, isOther)

\* Number::toString of an integer
RECURSIVE Digits(_)
Digits(n) == IF n < 10 THEN <<48 + n>> ELSE Append(Digits(n \div 10), 48 + (n % 10))

NumberToString(n) == IF n < 0 THEN <<45>> \o Digits(-n) ELSE Digits(n)

\* parseInt: an optional sign, then the longest prefix of digits
ParseInt(u) ==
    LET signed == Len(u) > 0 /\ u[1] \in {43, 45}
        first == IF signed THEN 2 ELSE 1
        last == CHOOSE e \in (first - 1)..Len(u) :
                    /\ \A i \in first..e : IsDigit(u[i])
                    /\ e < Len(u) => ~IsDigit(u[e + 1])
        magnitude == DigitsValue(SubSeq(u, first, last))
    IN  IF last < first THEN "NaN"
        ELSE IF signed /\ u[1] = 45 THEN -magnitude ELSE magnitude

\* rounding to the nearest integer with a tie going away from zero
MathRoundAwayFromZero(h) == IF h >= 0 THEN (h + 1) \div 2 ELSE -((1 - h) \div 2)

\* Math.round of h/2: floor(x + 0.5), so a tie goes towards positive infinity
MathRound(h) == (h + 1) \div 2

(***************************************************************************)
(* aggregatedData.                                                         *)
(***************************************************************************)
TopN == 10

\* the test written as if (item.intensity)
IntensityTruthy(v) == Truthy(v)

\* line 154: item.intensity !== null && item.intensity !== undefined
IntensityPresent(v) == v # Null /\ v # Undefined

IntensityCounts(fd) ==
    LET acc[i \in 0..Len(fd)] ==
            IF i = 0 THEN <<>>
            ELSE LET v == Get(fd[i], "intensity")
                 IN  IF IntensityPresent(v)
                     THEN Increment(acc[i - 1], NumberToString(MathRound(v.h)))
                     ELSE acc[i - 1]
    IN  acc[Len(fd)]

\* the reduce of lines 162-167 and 174-179
FacetCounts(fd, facet) ==
    LET acc[i \in 0..Len(fd)] ==
            IF i = 0 THEN <<>>
            ELSE LET v == Get(fd[i], facet)
                 IN  IF Truthy(v) THEN Increment(acc[i - 1], v.u) ELSE acc[i - 1]
    IN  acc[Len(fd)]

\* the sort without the slice
TopRegionsUncut(entries) == SortBy(entries, "valueDesc")

\* sort and slice of lines 170-171 and 182-183
TopRegions(entries) == Slice(SortBy(entries, "valueDesc"), TopN)
TopTopics(entries) == Slice(SortBy(entries, "countDesc"), TopN)

ByRegion(fd) ==
    LET entries == ObjectEntries(FacetCounts(fd, "region"))
    IN  TopRegions([i \in 1..Len(entries) |->
                       [name |-> Str(entries[i].key), value |-> entries[i].value]])

ByTopic(fd) ==
    LET entries == ObjectEntries(FacetCounts(fd, "topic"))
    IN  TopTopics([i \in 1..Len(entries) |->
                      [topic |-> Str(entries[i].key), count |-> entries[i].value]])

ByIntensity(fd) ==
    LET entries == ObjectEntries(IntensityCounts(fd))
    IN  SortBy([i \in 1..Len(entries) |->
                   [intensity |-> ParseInt(entries[i].key),
                    count |-> entries[i].value]],
               "intensityAsc")

ComputeAggregatedData(fd) ==
    [byIntensity |-> ByIntensity(fd),
     byRegion |-> IF Len(ByRegion(fd)) # 0 THEN ByRegion(fd)
                  ELSE <<[name |-> Str(S_NoData), value |-> 0]>>,
     byTopic |-> IF Len(ByTopic(fd)) # 0 THEN ByTopic(fd)
                 ELSE <<[topic |-> Str(S_NoData), count |-> 0]>>]

(***************************************************************************)
(* The summary statistics card: a mean, shown with toFixed(1).             *)
(***************************************************************************)
NaN == [t |-> "number", nan |-> TRUE]
S_NaN == <<78, 97, 78>>

\* reduce((acc, item) => acc + (item[field] || 0), 0), in halves
SumOf(fd, field) ==
    LET acc[i \in 0..Len(fd)] ==
            IF i = 0 THEN 0
            ELSE LET v == Get(fd[i], field)
                 IN  acc[i - 1] + (IF Truthy(v) THEN v.h ELSE 0)
    IN  acc[Len(fd)]

\* sum / filteredData.length: 0 / 0 is NaN; otherwise the quotient num / den
Divide(sumHalves, length) ==
    IF length = 0 THEN NaN ELSE [t |-> "number", num |-> sumHalves, den |-> 2 * length]

\* Number.prototype.toFixed(1): the nearest tenth, a tie to the larger
\* magnitude, after the sign is taken off
ToFixed1(x) ==
    IF x = NaN THEN S_NaN
    ELSE LET neg == x.num < 0
             mag == IF neg THEN -x.num ELSE x.num
             n == (20 * mag + x.den) \div (2 * x.den)
         IN  (IF neg THEN <<45>> ELSE <<>>)
                 \o Digits(n \div 10) \o <<46>> \o Digits(n % 10)

\* the mean taken over the records that have the value
AverageOfPresent(fd, field) ==
    LET has(item) == Truthy(Get(item, field))
    IN  ToFixed1(Divide(SumOf(fd, field), Len(SelectSeq(fd, has))))

Average(fd, field) == ToFixed1(Divide(SumOf(fd, field), Len(fd)))

(***************************************************************************)
(* The server's route: every document as a JSON array with status 200, or  *)
(* status 400 with the JSON string 'Error: ' + err.                        *)
(***************************************************************************)
ServerResponses ==
    {[status |-> 200, body |-> Arr(items)] : items \in Datasets}
        \cup {[status |-> 400, body |-> Str(S_ErrorPrefix)]}

(***************************************************************************)
(* Rendering.  The three useMemo values are recomputed when a dependency   *)
(* changed, and kept otherwise.  React compares dependencies by identity;  *)
(* the model compares them by value, which differs only where a            *)
(* recomputation from equal inputs gives an equal result.  data.map throws *)
(* when data is not an array; nothing catches it, and the tree unmounts.   *)
(***************************************************************************)
AllCharts(b) == [intensity |-> b, region |-> b, likelihood |-> b, topic |-> b]

NoFilters == [f \in FacetSet |-> Str(S_empty)]

RenderThrows(d) == d.t # "array"

OptionsDepsChanged(d) == d # data
\* the dependency list of filteredData written as [data]
FilteredDepsDataOnly(d, f) == d # data
FilteredDepsChanged(d, f) == d # data \/ f # filters
AggregatedDepsChanged(fd) == fd # filteredData

Render(d, f) ==
    IF RenderThrows(d)
    THEN /\ crashed' = TRUE
         /\ UNCHANGED <<filterOptions, filteredData, aggregatedData>>
    ELSE /\ crashed' = FALSE
         /\ filterOptions' = IF OptionsDepsChanged(d) THEN ComputeFilterOptions(d)
                             ELSE filterOptions
         /\ filteredData' = IF FilteredDepsChanged(d, f) THEN ComputeFilteredData(d, f)
                            ELSE filteredData
         /\ aggregatedData' = IF AggregatedDepsChanged(filteredData')
                              THEN ComputeAggregatedData(filteredData')
                              ELSE aggregatedData

\* the effect on [filters, loading], run after a render in which one changed:
\* the previous run's timer is cleared, and when loading is over the
\* indicators are set and an 800 ms timer is started
ChartEffect(isLoading) ==
    IF crashed' \/ isLoading
    THEN UNCHANGED <<chartsLoading, effectTimer>>
    ELSE /\ chartsLoading' = AllCharts(TRUE)
         /\ effectTimer' = TRUE

\* the retrieval's effect given the dependency list [filters]
FetchEffectOnFilters == TRUE

\* the dependency list of the retrieval's effect is []: it runs on mount only
FetchEffectReruns == FALSE

(***************************************************************************)
(* The state machine.                                                      *)
(***************************************************************************)
Init ==
    /\ data = Arr(<<>>)
    /\ loading = TRUE
    /\ chartsLoading = AllCharts(TRUE)
    /\ error = Null
    /\ filters = NoFilters
    /\ fetchPc = "idle"
    /\ fetchCount = 0
    /\ fetchOutcome = "none"
    /\ effectTimer = FALSE
    /\ handlerTimers = 0
    /\ staleTimers = 0
    /\ lastChange = "none"
    /\ filterOptions = ComputeFilterOptions(Arr(<<>>))
    /\ filteredData = ComputeFilteredData(Arr(<<>>), NoFilters)
    /\ aggregatedData = ComputeAggregatedData(<<>>)
    /\ crashed = FALSE

\* the effect of lines 81-98 runs after the first render: fetchData() starts
MountEffect ==
    /\ fetchPc = "idle"
    /\ fetchPc' = "pending"
    /\ fetchCount' = fetchCount + 1
    /\ loading' = TRUE
    /\ UNCHANGED <<data, chartsLoading, error, filters, fetchOutcome, effectTimer,
                   handlerTimers, staleTimers, lastChange, filterOptions,
                   filteredData, aggregatedData, crashed>>

\* fetch resolves (whatever the status) and response.json() parses the body
FetchResolve(resp) ==
    /\ fetchPc = "pending"
    /\ data' = resp.body
    /\ error' = Null
    /\ loading' = FALSE
    /\ fetchPc' = "settled"
    /\ fetchOutcome' = IF resp.status = 200 THEN "ok" ELSE "status"
    /\ Render(data', filters)
    /\ ChartEffect(loading')
    /\ UNCHANGED <<filters, fetchCount, handlerTimers, staleTimers, lastChange>>

\* fetch rejects (network error), or the body is not JSON: the catch block
FetchReject ==
    /\ fetchPc = "pending"
    /\ error' = Str(S_FetchFailed)
    /\ loading' = FALSE
    /\ fetchPc' = "settled"
    /\ fetchOutcome' = "network"
    /\ Render(data, filters)
    /\ ChartEffect(loading')
    /\ UNCHANGED <<data, filters, fetchCount, handlerTimers, staleTimers,
                   lastChange>>

\* the retrieval issued again, were its effect to rerun on a filter change
Refetch ==
    IF FetchEffectReruns
    THEN fetchCount' = fetchCount + 1 /\ fetchPc' = "pending" /\ loading' = TRUE
    ELSE UNCHANGED <<fetchCount, fetchPc, loading>>

\* the <option> values of a facet's dropdown: '' and the facet's option list
Selectable(facet) ==
    {Str(S_empty)}
        \cup {filterOptions[OptionKey(facet)][i] :
                 i \in 1..Len(filterOptions[OptionKey(facet)])}

\* a dropdown's onChange: setFilters(prev => ({...prev, [facet]: value}))
SelectFilter(facet, value) ==
    /\ ~crashed
    /\ value \in Selectable(facet)
    /\ value # filters[facet]
    /\ filters' = [filters EXCEPT ![facet] = value]
    /\ Render(data, filters')
    /\ Refetch
    /\ ChartEffect(loading')
    /\ staleTimers' = handlerTimers
    /\ lastChange' = "pending"
    /\ UNCHANGED <<data, error, fetchOutcome, handlerTimers>>

\* the remove button of an active filter: handleFilterChange(key, '')
RemoveFilter(key) ==
    /\ ~crashed
    /\ Truthy(filters[key])
    /\ handlerTimers < MaxHandlerTimers
    /\ filters' = [filters EXCEPT ![key] = Str(S_empty)]
    /\ handlerTimers' = handlerTimers + 1
    /\ staleTimers' = handlerTimers
    /\ lastChange' = "pending"
    /\ Render(data, filters')
    /\ Refetch
    /\ chartsLoading' = AllCharts(TRUE)
    /\ effectTimer' = IF loading' THEN effectTimer ELSE TRUE
    /\ UNCHANGED <<data, error, fetchOutcome>>

\* a 500 ms timer of handleFilterChange expires (they expire in order, the
\* oldest first): nothing cancels it, whatever happened since it was started
HandlerTimerFire ==
    /\ handlerTimers > 0
    /\ handlerTimers' = handlerTimers - 1
    /\ chartsLoading' = AllCharts(FALSE)
    /\ staleTimers' = IF staleTimers > 0 THEN staleTimers - 1 ELSE 0
    /\ lastChange' = IF staleTimers > 0 THEN lastChange ELSE "elapsed"
    /\ UNCHANGED <<data, loading, error, filters, fetchPc, fetchCount, fetchOutcome,
                   effectTimer, filterOptions, filteredData, aggregatedData, crashed>>

\* the effect's 800 ms timer expires: every pending 500 ms timer was started
\* no later than it and has expired before
EffectTimerFire ==
    /\ effectTimer
    /\ handlerTimers = 0
    /\ effectTimer' = FALSE
    /\ chartsLoading' = AllCharts(FALSE)
    /\ lastChange' = IF lastChange = "none" THEN "none" ELSE "elapsed"
    /\ UNCHANGED <<data, loading, error, filters, fetchPc, fetchCount, fetchOutcome,
                   handlerTimers, staleTimers, filterOptions, filteredData, aggregatedData, crashed>>

Next ==
    \/ MountEffect
    \/ \E resp \in ServerResponses : FetchResolve(resp)
    \/ FetchReject
    \/ \E facet \in FacetSet : \E value \in Selectable(facet) : SelectFilter(facet, value)
    \/ \E key \in FacetSet : RemoveFilter(key)
    \/ HandlerTimerFire
    \/ EffectTimerFire

Spec == Init /\ [][Next]_vars

\* a timer started with setTimeout and not cleared expires: the event loop
\* runs its callback once the delay is over
FairSpec == Spec /\ WF_vars(HandlerTimerFire) /\ WF_vars(EffectTimerFire)

(***************************************************************************)
(* Properties.                                                             *)
(***************************************************************************)
\* a record matches a filter state, as the specification words it
MatchesAsSpecified(r, f) ==
    \A facet \in FacetSet :
        f[facet] = Str(S_empty) \/ (facet \in DOMAIN r /\ r[facet] = f[facet])

ActiveFacets == {facet \in FacetSet : filters[facet] # Str(S_empty)}

\* C1: a record of the raw dataset is in the filtered subset iff, for each of
\* the six facets, the filter is unset or the record's field is present and
\* equal to the selection; the subset keeps the records' order.
C1_FilterIsPerFacetConjunction ==
    ~crashed =>
        LET wanted(r) == MatchesAsSpecified(r, filters)
        IN  filteredData = SelectSeq(data.items, wanted)

\* C1 witness: a facet is selected, a record lacking that field is left out and
\* another record is kept.
C1_Witness ==
    /\ ~crashed
    /\ \E facet \in ActiveFacets :
           \E i \in 1..Len(data.items) :
               /\ facet \notin DOMAIN data.items[i]
               /\ \A j \in 1..Len(filteredData) : filteredData[j] # data.items[i]
    /\ filteredData # <<>>

\* C7: filtering the filtered subset again by the same filter state gives the
\* same subset, in the same order.
C7_FilterIdempotent ==
    ~crashed => FilterRecords(filteredData, filters) = filteredData

\* C7 witness: an active filter has removed some records and kept others.
C7_Witness ==
    /\ ~crashed
    /\ ActiveFacets # {}
    /\ filteredData # <<>>
    /\ Len(filteredData) < Len(data.items)

\* C8: the filtered subset and the derived datasets are those a recomputation
\* from scratch gives for the current raw dataset and filter state, whatever
\* sequence of filter changes led there.
C8_DerivedFromCurrentState ==
    ~crashed =>
        /\ filteredData = ComputeFilteredData(data, filters)
        /\ aggregatedData = ComputeAggregatedData(ComputeFilteredData(data, filters))

\* C8 witness: two facets are selected (reached by setting them in either
\* order) and the subset they leave is a proper, non-empty part of the data.
C8_Witness ==
    /\ ~crashed
    /\ Cardinality(ActiveFacets) >= 2
    /\ filteredData # <<>>
    /\ Len(filteredData) < Len(data.items)

\* the distinct non-empty values of a field over the raw dataset
FieldValues(facet) ==
    {data.items[i][facet] :
        i \in {j \in 1..Len(data.items) : facet \in DOMAIN data.items[j]}}
        \ {Str(S_empty), Null}

\* C5: each facet's option list holds exactly the distinct non-empty values of
\* the field over the whole raw dataset, strictly ascending, in every state:
\* no filter change alters it.
C5_OptionsFromRawDataset ==
    ~crashed =>
        \A facet \in FacetSet :
            LET list == filterOptions[OptionKey(facet)]
            IN  /\ {list[i] : i \in 1..Len(list)} = FieldValues(facet)
                /\ \A i \in 1..(Len(list) - 1) : StrLess(list[i].u, list[i + 1].u)

\* C5 witness: a filter is active and leaves out the records that carry one of
\* the options of a list of two or more values.
C5_Witness ==
    /\ ~crashed
    /\ ActiveFacets # {}
    /\ \E facet \in FacetSet :
           /\ Len(filterOptions[OptionKey(facet)]) >= 2
           /\ \E i \in 1..Len(filterOptions[OptionKey(facet)]) :
                  \A j \in 1..Len(filteredData) :
                      Get(filteredData[j], facet) # filterOptions[OptionKey(facet)][i]

\* the non-empty values of a field over a sequence of records
NonEmptyValues(fd, facet) ==
    {fd[i][facet] : i \in {j \in 1..Len(fd) : facet \in DOMAIN fd[j]}}
        \ {Str(S_empty), Null}

\* the number of records of a sequence that carry a value in a field
CountOf(fd, facet, v) ==
    Cardinality({i \in 1..Len(fd) : facet \in DOMAIN fd[i] /\ fd[i][facet] = v})

\* byRegion and byTopic as sequences of <<key, count>>
RegionOut ==
    [i \in 1..Len(aggregatedData.byRegion) |->
        <<aggregatedData.byRegion[i].name, aggregatedData.byRegion[i].value>>]
TopicOut ==
    [i \in 1..Len(aggregatedData.byTopic) |->
        <<aggregatedData.byTopic[i].topic, aggregatedData.byTopic[i].count>>]

TopGroups(out, facet) ==
    IF NonEmptyValues(filteredData, facet) = {}
    THEN out = <<<<Str(S_NoData), 0>>>>
    ELSE /\ Len(out) <= 10
         /\ \A i \in 1..(Len(out) - 1) : out[i][2] >= out[i + 1][2]
         /\ \A i \in 1..Len(out) :
                /\ out[i][1] \in NonEmptyValues(filteredData, facet)
                /\ out[i][2] = CountOf(filteredData, facet, out[i][1])

SumCounts(h) ==
    LET acc[i \in 0..Len(h)] == IF i = 0 THEN 0 ELSE acc[i - 1] + h[i].count
    IN  acc[Len(h)]

\* C4: byIntensity is strictly ascending by intensity (so without duplicate
\* keys), has no zero-count bucket, and its counts add up to the number of
\* filtered records whose intensity is neither null nor undefined.
C4_IntensityHistogram ==
    ~crashed =>
        LET h == aggregatedData.byIntensity
        IN  /\ \A i \in 1..(Len(h) - 1) : h[i].intensity < h[i + 1].intensity
            /\ \A i \in 1..Len(h) : h[i].count > 0
            /\ SumCounts(h) =
                   Cardinality({i \in 1..Len(filteredData) :
                                   /\ "intensity" \in DOMAIN filteredData[i]
                                   /\ filteredData[i].intensity # Null})

\* C4 witness: the subset has records with a null or missing intensity and
\* records in two or more buckets, one of them bucket 0.
C4_Witness ==
    /\ ~crashed
    /\ Len(aggregatedData.byIntensity) >= 2
    /\ \E i \in 1..Len(aggregatedData.byIntensity) :
           aggregatedData.byIntensity[i].intensity = 0
    /\ \E i \in 1..Len(filteredData) : Get(filteredData[i], "intensity") = Null

\* the sum of a score over a sequence of records, in halves, a record without
\* a number there adding nothing
ScoreSum(fd, field) ==
    LET score(i) == IF field \in DOMAIN fd[i] /\ fd[i][field].t = "number"
                    THEN fd[i][field].h ELSE 0
        acc[i \in 0..Len(fd)] == IF i = 0 THEN 0 ELSE acc[i - 1] + score(i)
    IN  acc[Len(fd)]

\* the number of tenths a text of the form [-]digits.digit denotes
TenthsOf(text) ==
    LET neg == text[1] = 45
        body == IF neg THEN Tail(text) ELSE text
        mag == DigitsValue(SubSeq(body, 1, Len(body) - 2)) * 10
                   + (body[Len(body)] - 48)
    IN  IF neg THEN -mag ELSE mag

Abs(x) == IF x < 0 THEN -x ELSE x

\* C6: each mean shown is the sum of the score over the filtered subset, an
\* absent score counting 0, divided by the number of filtered records (to the
\* nearest tenth); over an empty subset it is shown as NaN, not as a number.
C6_MeanOverAllFiltered ==
    ~crashed =>
        \A field \in {"intensity", "relevance", "likelihood"} :
            LET n == Len(filteredData)
                shown == Average(filteredData, field)
            IN  IF n = 0 THEN shown = S_NaN
                ELSE /\ shown # S_NaN
                     /\ shown[Len(shown) - 1] = 46
                     /\ Abs(2 * n * TenthsOf(shown) - 10 * ScoreSum(filteredData, field))
                            <= n

\* C6 witness: a filter is active and the subset it leaves has a record
\* without intensity and a record with a non-zero one.
C6_Witness ==
    /\ ~crashed
    /\ ActiveFacets # {}
    /\ \E i \in 1..Len(filteredData) : ~Truthy(Get(filteredData[i], "intensity"))
    /\ ScoreSum(filteredData, "intensity") # 0

\* C6, the empty subset: a filter leaves no record of a non-empty dataset and
\* the mean of intensity is shown as NaN.
C6_EmptySubsetReached ==
    /\ ~crashed
    /\ Len(data.items) > 0
    /\ filteredData = <<>>
    /\ Average(filteredData, "intensity") = S_NaN

\* C9: one retrieval is issued, on mount; loading is true until it settles and
\* false ever after; while loading is true the raw dataset is the initial
\* empty array.
C9_SingleRetrieval ==
    /\ fetchCount <= 1
    /\ fetchPc = "idle" <=> fetchCount = 0
    /\ loading <=> fetchPc # "settled"
    /\ fetchOutcome # "none" => ~loading
    /\ loading => data = Arr(<<>>) /\ filters = NoFilters /\ filteredData = <<>>

\* C9 witness: the retrieval has succeeded and a filter has been changed since.
C9_Witness ==
    /\ fetchOutcome = "ok"
    /\ fetchCount = 1
    /\ ~loading
    /\ ActiveFacets # {}

\* C2 (as claimed): after a failed retrieval, by a network error or by a
\* non-success status with an error payload, the raw dataset is unchanged (the
\* empty array), the error state holds a message, loading is cleared and the
\* computations that follow do not fail.
C2_FailureLeavesDataset ==
    fetchOutcome \in {"network", "status"} =>
        /\ data = Arr(<<>>)
        /\ error # Null
        /\ ~loading
        /\ ~crashed

\* the position in a sequence of records at which a value of a field first occurs
FirstSeen(fd, facet, v) ==
    CHOOSE i \in 1..Len(fd) :
        /\ Get(fd[i], facet) = v
        /\ \A j \in 1..(i - 1) : Get(fd[j], facet) # v

\* a precedes b among groups of equal count.  "firstEncounter": by first
\* occurrence.  "propertyOrder": the keys that are array indices first and in
\* ascending numeric order, then the other keys by first occurrence.
TieOrder(rule, fd, facet, a, b) ==
    IF rule = "firstEncounter"
    THEN FirstSeen(fd, facet, a) < FirstSeen(fd, facet, b)
    ELSE \/ IsArrayIndex(a.u) /\ ~IsArrayIndex(b.u)
         \/ IsArrayIndex(a.u) /\ IsArrayIndex(b.u) /\ DigitsValue(a.u) < DigitsValue(b.u)
         \/ /\ ~IsArrayIndex(a.u) /\ ~IsArrayIndex(b.u)
            /\ FirstSeen(fd, facet, a) < FirstSeen(fd, facet, b)

\* out lists the first 10 groups of the filtered subset in the order: larger
\* count first, equal counts as the tie rule orders them
OrderedThenCut(out, facet, rule) ==
    LET groups == NonEmptyValues(filteredData, facet)
        listed == {out[i][1] : i \in 1..Len(out)}
        ahead(a, b) ==
            \/ CountOf(filteredData, facet, a) > CountOf(filteredData, facet, b)
            \/ /\ CountOf(filteredData, facet, a) = CountOf(filteredData, facet, b)
               /\ TieOrder(rule, filteredData, facet, a, b)
    IN  groups # {} =>
            /\ listed \subseteq groups
            /\ Len(out) = Min(10, Cardinality(groups))
            /\ \A i, j \in 1..Len(out) : i < j => ahead(out[i][1], out[j][1])
            /\ \A g \in groups \ listed : \A i \in 1..Len(out) : ahead(out[i][1], g)

\* C10 (as claimed): in byRegion and byTopic, groups of equal count appear in
\* the order in which their key first occurs in the filtered subset, for every
\* key, and the cut to 10 comes after this ordering.
C10_TiesByFirstEncounter ==
    ~crashed =>
        /\ OrderedThenCut(RegionOut, "region", "firstEncounter")
        /\ OrderedThenCut(TopicOut, "topic", "firstEncounter")

\* C10 (amended): groups of equal count appear in the property order of the
\* accumulator: keys that are array indices first, ascending by number, then
\* every other key in the order of its first occurrence in the filtered
\* subset; the cut to 10 comes after this ordering.
C10_TiesByPropertyOrder ==
    ~crashed =>
        /\ OrderedThenCut(RegionOut, "region", "propertyOrder")
        /\ OrderedThenCut(TopicOut, "topic", "propertyOrder")

\* C10 witness: two regions have the same count and the one listed first was
\* encountered later.
C10_Witness ==
    /\ ~crashed
    /\ NonEmptyValues(filteredData, "region") # {}
    /\ \E i, j \in 1..Len(RegionOut) :
           /\ i < j
           /\ RegionOut[i][2] = RegionOut[j][2]
           /\ FirstSeen(filteredData, "region", RegionOut[i][1])
                  > FirstSeen(filteredData, "region", RegionOut[j][1])

\* C11: once the retrieval has settled, after a filter change (a dropdown or a
\* remove button) the four chart-loading flags are all true for as long as no
\* timer started by that most recent change has expired; a timer started by an
\* earlier change does not clear them.
C11_LatestChangeKeepsIndicator ==
    (fetchPc = "settled" /\ ~crashed /\ lastChange = "pending")
        => chartsLoading = AllCharts(TRUE)

\* h/2 falls in the bucket n under a rule for ties: "up" sends a tie to the
\* next integer towards positive infinity, "away" to the one away from zero
InBucket(rule, h, n) ==
    IF rule = "up" \/ h >= 0
    THEN 2 * n - 1 <= h /\ h < 2 * n + 1
    ELSE 2 * n - 1 < h /\ h <= 2 * n + 1

\* the filtered records with a present intensity, by position
WithIntensity ==
    {k \in 1..Len(filteredData) :
        /\ "intensity" \in DOMAIN filteredData[k]
        /\ filteredData[k].intensity # Null}

\* every record with a present intensity has its bucket in byIntensity, and
\* a bucket counts exactly the records that fall in it under the rule
BucketsBy(rule) ==
    LET hist == aggregatedData.byIntensity
    IN  /\ \A k \in WithIntensity :
               \E i \in 1..Len(hist) :
                   InBucket(rule, filteredData[k].intensity.h, hist[i].intensity)
        /\ \A i \in 1..Len(hist) :
               hist[i].count =
                   Cardinality({k \in WithIntensity :
                                   InBucket(rule, filteredData[k].intensity.h,
                                            hist[i].intensity)})

\* C12 as stated: the histogram buckets each record with a present intensity
\* by rounding to the nearest integer, a tie going away from zero (2.5 to 3
\* and -2.5 to -3).
C12_TiesAwayFromZero == ~crashed => BucketsBy("away")

\* C12 as the code has it: the histogram buckets each record with a present
\* intensity by rounding to the nearest integer, a tie going towards positive
\* infinity (2.5 to 3, -2.5 to -2, -0.5 to 0).
C12_TiesTowardsPositiveInfinity == ~crashed => BucketsBy("up")

\* C12 witness: the subset holds a record of intensity -2.5 and one of 2.5,
\* and the histogram has the buckets -2 and 3.
C12_Witness ==
    /\ ~crashed
    /\ \E k \in WithIntensity : filteredData[k].intensity.h = -5
    /\ \E k \in WithIntensity : filteredData[k].intensity.h = 5
    /\ \E i \in 1..Len(aggregatedData.byIntensity) :
           aggregatedData.byIntensity[i].intensity = -2
    /\ \E i \in 1..Len(aggregatedData.byIntensity) :
           aggregatedData.byIntensity[i].intensity = 3

\* C13: in every reachable state the four chart-loading flags are equal and,
\* while the retrieval has not settled, true; and if the retrieval settles
\* (with any outcome) and the filters eventually stop changing then, pending
\* timers expiring, the four flags eventually are false and stay false.
C13_IndicatorSettles ==
    /\ [](chartsLoading \in {AllCharts(TRUE), AllCharts(FALSE)})
    /\ [](fetchPc # "settled" => chartsLoading = AllCharts(TRUE))
    /\ (<>(fetchPc = "settled") /\ <>[][filters' = filters]_vars)
           => <>[](chartsLoading = AllCharts(FALSE))

\* C13 for the behaviours in which no render throws: the same three parts.
C13_IndicatorSettlesUnlessRenderThrew ==
    /\ [](chartsLoading \in {AllCharts(TRUE), AllCharts(FALSE)})
    /\ [](fetchPc # "settled" => chartsLoading = AllCharts(TRUE))
    /\ (<>(fetchPc = "settled") /\ <>[][filters' = filters]_vars)
           => <>[](crashed \/ chartsLoading = AllCharts(FALSE))

====
